---- MODULE Spec2Model ----
(***************************************************************************)
(* A model of HyperHttpConnection (src/src/lib.rs): the blocking bridge    *)
(* over an asynchronous HTTP client.  The state is the four data fields of *)
(* the struct; the HTTP client and the server behind it are the            *)
(* environment, which answers a submitted request with a transport error   *)
(* or with a response, and delivers or fails to deliver the response body. *)
(***************************************************************************)
EXTENDS Integers, Sequences, FiniteSets, TLC

(* ------------------------------ bounds --------------------------------- *)

\* longest response body the server sends
MaxBody == 2
\* most bytes the write buffer holds in the model
MaxWriteBuf == 2
\* most write calls counted between two flushes
MaxWrites == 2

(* ------------------------------ values --------------------------------- *)

\* Option<T>: None, or Some(x)
None == <<>>
Some(x) == <<x>>
IsSome(o) == o # None
Unwrap(o) == o[1]

Min(a, b) == IF a <= b THEN a ELSE b

\* the byte values bodies are made of
Byte == {0, 1}

SeqsUpTo(S, n) == UNION {[1..i -> S] : i \in 0..n}

Take(s, n) == SubSeq(s, 1, n)
Drop(s, n) == SubSeq(s, n + 1, Len(s))

\* embedded_svc::http::Method values offered by callers: the nine the
\* connector maps and one it does not
Methods ==
    {"Delete", "Get", "Head", "Post", "Put", "Connect", "Options", "Trace",
     "Patch", "Copy"}

\* text is a sequence of ASCII codes
Upper == 65..90
Lower(c) == IF c \in Upper THEN c + 32 ELSE c
LowerAll(s) == [i \in 1..Len(s) |-> Lower(s[i])]

\* "A", " " : a valid and an invalid header name
\* "v", "\n": a valid and an invalid header value
HeaderNames == {<<65>>, <<32>>}
HeaderValues == {<<118>>, <<10>>}
HeaderPairs == HeaderNames \X HeaderValues
\* header slices passed to initiate_request: every slice of at most one
\* pair, and the two-pair slices that put a second fault after a first
HeaderLists ==
    {<<>>} \cup {<<p>> : p \in HeaderPairs}
    \cup {<< <<(<<65>>), (<<118>>)>>, <<(<<65>>), (<<118>>)>> >>,
          << <<(<<65>>), (<<118>>)>>, <<(<<32>>), (<<118>>)>> >>,
          << <<(<<65>>), (<<10>>)>>, <<(<<32>>), (<<118>>)>> >>}

\* "h/" and "": a URI the request builder accepts and one it rejects
Uris == {<<104, 47>>, <<>>}

\* what the server may answer: status line and header map
EmptyMap == [x \in {} |-> <<>>]
ServerHeads ==
    {[status |-> 200, headers |-> (<<99, 116>> :> <<106>>)],
     [status |-> 299, headers |-> EmptyMap]}
ServerResponses ==
    {[status |-> h.status, headers |-> h.headers, body |-> b] :
        h \in ServerHeads, b \in SeqsUpTo(Byte, MaxBody)}

\* names a caller looks up with header(): "CT", "ct", "x", " "
QueryNames == {<<67, 84>>, <<99, 116>>, <<120>>, <<32>>}

\* buffer lengths a caller reads with
ReadSizes == 0..MaxBody

\* the calls of initiate_request that callers make: every method with a
\* plain request; a mapped method with every header slice, and with a
\* rejected URI behind sound and behind faulty headers; an unmapped
\* method with faulty headers and with a rejected URI
Calls ==
    (Methods \X {<<104, 47>>} \X {<<>>})
    \cup ({"Post"} \X {<<104, 47>>} \X HeaderLists)
    \cup ({"Post"} \X {<<>>} \X {<<>>, << <<(<<65>>), (<<10>>)>> >>})
    \cup ({"Copy"} \X {<<104, 47>>} \X {<< <<(<<32>>), (<<118>>)>> >>})
    \cup ({"Copy"} \X {<<>>} \X {<<>>})

(* ------------------------------- state --------------------------------- *)

VARIABLES
    request,        \* Option<Request<Full<Bytes>>>
    response,       \* Option<Response<Incoming>>
    read_buffer,    \* Bytes
    write_buffer,   \* Vec<u8>
    last,           \* the latest call and what it returned
    served,         \* the response the server gave to the latest submit
    observed,       \* what status/status_message/header said after it
    got,            \* bytes returned by reads since the latest submit
    broken,         \* collecting the body failed since the latest submit
    written,        \* bytes passed to write since the latest flush
    nwrites,        \* number of write calls since the latest flush
    flushed,        \* bytes the latest flush of the pending request moved
    stray           \* number of bytes passed to write with no request
                    \* pending, since the request slot was last emptied

vars ==
    <<request, response, read_buffer, write_buffer, last, served, observed,
      got, broken, written, nwrites, flushed, stray>>

conn == <<request, response, read_buffer, write_buffer>>
ghosts == <<served, observed, got, broken, written, nwrites, flushed,
           stray>>

\* a call's record: the operation, Ok or the error returned, a length
\* given (k), a length returned (n), the body given to the client, and the
\* method given to initiate_request
Ret(op, res, k, n, body) ==
    [op |-> op, res |-> res, k |-> k, n |-> n, body |-> body, method |-> ""]

(* --------------------------- pure helpers ------------------------------ *)

\* Result<T, HyperError>
Ok(v) == [ok |-> TRUE, val |-> v, err |-> "Ok"]
Err(e) == [ok |-> FALSE, val |-> <<>>, err |-> e]

\* map_method with the Patch arm lost
map_method_noPatch(method) ==
    CASE method = "Delete" -> Ok("DELETE")
      [] method = "Get" -> Ok("GET")
      [] method = "Head" -> Ok("HEAD")
      [] method = "Post" -> Ok("POST")
      [] method = "Put" -> Ok("PUT")
      [] method = "Connect" -> Ok("CONNECT")
      [] method = "Options" -> Ok("OPTIONS")
      [] method = "Trace" -> Ok("TRACE")
      [] OTHER -> Err("UnsupportedMethod")

map_method(method) ==
    CASE method = "Delete" -> Ok("DELETE")
      [] method = "Get" -> Ok("GET")
      [] method = "Head" -> Ok("HEAD")
      [] method = "Post" -> Ok("POST")
      [] method = "Put" -> Ok("PUT")
      [] method = "Connect" -> Ok("CONNECT")
      [] method = "Options" -> Ok("OPTIONS")
      [] method = "Trace" -> Ok("TRACE")
      [] method = "Patch" -> Ok("PATCH")
      [] OTHER -> Err("UnsupportedMethod")

\* HeaderName::from_bytes accepts a non-empty run of token characters
TChar ==
    (48..57) \cup Upper \cup (97..122)
    \cup {33, 35, 36, 37, 38, 39, 42, 43, 45, 46, 94, 95, 96, 124, 126}
ValidHeaderName(name) ==
    Len(name) > 0 /\ \A i \in 1..Len(name) : name[i] \in TChar

\* HeaderValue::from_str accepts visible ASCII and the tab
ValidHeaderValue(value) ==
    \A i \in 1..Len(value) :
        (value[i] >= 32 /\ value[i] < 127) \/ value[i] = 9

\* HeaderMap::insert: the name is stored in lower case, a later value
\* replaces an earlier one
Insert(map, name, value) ==
    [x \in DOMAIN map \cup {LowerAll(name)} |->
        IF x = LowerAll(name) THEN value ELSE map[x]]

RECURSIVE build_headers_from(_, _, _)
build_headers_from(headers, i, header_map) ==
    IF i > Len(headers) THEN Ok(header_map)
    ELSE IF ~ValidHeaderName(headers[i][1]) THEN Err("InvalidHeaderName")
    ELSE IF ~ValidHeaderValue(headers[i][2]) THEN Err("InvalidHeaderValue")
    ELSE build_headers_from(headers, i + 1,
                            Insert(header_map, headers[i][1], headers[i][2]))

\* the value of a pair validated before its name
RECURSIVE build_headers_valueFirst_from(_, _, _)
build_headers_valueFirst_from(headers, i, header_map) ==
    IF i > Len(headers) THEN Ok(header_map)
    ELSE IF ~ValidHeaderValue(headers[i][2]) THEN Err("InvalidHeaderValue")
    ELSE IF ~ValidHeaderName(headers[i][1]) THEN Err("InvalidHeaderName")
    ELSE build_headers_valueFirst_from(headers, i + 1,
                            Insert(header_map, headers[i][1], headers[i][2]))

build_headers_valueFirst(headers) ==
    build_headers_valueFirst_from(headers, 1, EmptyMap)

\* lines 98-110
build_headers(headers) == build_headers_from(headers, 1, EmptyMap)

\* Request::builder().uri(uri): an empty URI or one holding a blank or a
\* control character makes body() fail
ValidUri(uri) ==
    Len(uri) > 0 /\ \A i \in 1..Len(uri) : uri[i] > 32 /\ uri[i] < 127

\* StatusCode::canonical_reason
canonical_reason(code) ==
    CASE code = 200 -> Some("OK")
      [] code = 404 -> Some("Not Found")
      [] code = 500 -> Some("Internal Server Error")
      [] OTHER -> None

(* ------------------------------ queries -------------------------------- *)

ensure_response == IF IsSome(response) THEN Ok(Unwrap(response)) ELSE Err("NoResponse")

is_request_initiated == IsSome(request)

is_response_initiated == IsSome(response)

status ==
    IF ensure_response.ok THEN ensure_response.val.status ELSE 500

\* the reason phrase looked up from what status() returns
status_message_ofStatus == canonical_reason(status)

status_message ==
    IF ensure_response.ok THEN canonical_reason(ensure_response.val.status)
    ELSE None

\* HeaderMap::get(&str) finds the name whatever its case and finds nothing
\* for a name that is no header name; to_str gives up on a value that is
\* not visible ASCII
header(name) ==
    IF ~ensure_response.ok THEN None
    ELSE IF ~ValidHeaderName(name) THEN None
    ELSE IF LowerAll(name) \notin DOMAIN ensure_response.val.headers THEN None
    ELSE IF ~ValidHeaderValue(ensure_response.val.headers[LowerAll(name)]) THEN None
    ELSE Some(ensure_response.val.headers[LowerAll(name)])

\* split hands out the connection twice: the header half and the body
\* half are the same object, so a read through the body half is read and a
\* lookup through the header half is status / header on the same state
split == <<conn, conn>>

Observation ==
    [status |-> status, status_message |-> status_message,
     header |-> [q \in QueryNames |-> header(q)]]

(* ------------------------------- Init ---------------------------------- *)

Init ==
    /\ request = None
    /\ response = None
    /\ read_buffer = <<>>
    /\ write_buffer = <<>>
    /\ last = Ret("new", "Ok", 0, 0, <<>>)
    /\ served = None
    /\ observed = None
    /\ got = <<>>
    /\ broken = FALSE
    /\ written = <<>>
    /\ nwrites = 0
    /\ flushed = <<>>
    /\ stray = 0

(* ------------------------------ actions -------------------------------- *)

\* a call that returns an error before it has assigned anything
Fails(op, err, method) ==
    /\ last' = [Ret(op, err, 0, 0, <<>>) EXCEPT !.method = method]
    /\ UNCHANGED <<conn, ghosts>>

\* line 236 forgotten: the previous response survives the new request
Commit_keepsResponse ==
    /\ request' = Some([body |-> <<>>])
    /\ response' = response
    /\ read_buffer' = <<>>
    /\ write_buffer' = <<>>

\* line 237 forgotten: unread bytes of the previous response survive
Commit_keepsReadBuffer ==
    /\ request' = Some([body |-> <<>>])
    /\ response' = None
    /\ read_buffer' = read_buffer
    /\ write_buffer' = <<>>

\* line 238 forgotten: bytes written earlier survive
Commit_keepsWriteBuffer ==
    /\ request' = Some([body |-> <<>>])
    /\ response' = None
    /\ read_buffer' = <<>>
    /\ write_buffer' = write_buffer

\* lines 231-238: the new request with an empty body, and the reset of the
\* response and of both buffers.  Of the request only the body is kept:
\* its method, URI and header map are read by no operation of the
\* connection, they leave with the body when the client takes the request.
Commit ==
    /\ request' = Some([body |-> <<>>])
    /\ response' = None
    /\ read_buffer' = <<>>
    /\ write_buffer' = <<>>

\* lines 236-238 moved above line 223: the previous cycle is discarded
\* before the arguments are validated
initiate_request_resetsFirst(method, uri, headers) ==
    LET mapped_method == map_method(method)
        header_map == build_headers(headers)
        err == IF ~mapped_method.ok THEN mapped_method.err
               ELSE IF ~header_map.ok THEN header_map.err
               ELSE IF ~ValidUri(uri) THEN "Http"
               ELSE "Ok"
    IN  /\ response' = None
        /\ read_buffer' = <<>>
        /\ write_buffer' = <<>>
        /\ request' = IF err = "Ok" THEN Some([body |-> <<>>]) ELSE request
        /\ last' = [Ret("initiate_request", err, Len(write_buffer),
                        Len(read_buffer), <<>>)
                    EXCEPT !.method = method]
        /\ served' = None
        /\ observed' = None
        /\ got' = <<>>
        /\ broken' = FALSE
        /\ written' = <<>>
        /\ nwrites' = 0
        /\ flushed' = <<>>
        /\ stray' = stray

\* lines 217-241; on success last.k counts the bytes of the write buffer
\* and last.n those of the read buffer that the call found and discarded
initiate_request(method, uri, headers) ==
    LET mapped_method == map_method(method)
        header_map == build_headers(headers)
    IN  IF ~mapped_method.ok
        THEN Fails("initiate_request", mapped_method.err, method)
        ELSE IF ~header_map.ok
        THEN Fails("initiate_request", header_map.err, method)
        ELSE IF ~ValidUri(uri)
        THEN Fails("initiate_request", "Http", method)
        ELSE /\ Commit
             /\ last' = [Ret("initiate_request", "Ok", Len(write_buffer),
                             Len(read_buffer), <<>>)
                         EXCEPT !.method = method]
             /\ served' = None
             /\ observed' = None
             /\ got' = <<>>
             /\ broken' = FALSE
             /\ written' = <<>>
             /\ nwrites' = 0
             /\ flushed' = <<>>
             /\ stray' = stray

\* the slice put in front of the buffered bytes
Extended_inFront(buffer, buf) == buf \o buffer

\* line 197: Vec::extend_from_slice
Extended(buffer, buf) == buffer \o buf

\* lines 196-199
write(buf) ==
    /\ Len(write_buffer) + Len(buf) <= MaxWriteBuf
    /\ nwrites < MaxWrites
    /\ write_buffer' = Extended(write_buffer, buf)
    /\ last' = Ret("write", "Ok", Len(buf), Len(buf), <<>>)
    /\ written' = written \o buf
    /\ nwrites' = nwrites + 1
    /\ stray' = IF request = None THEN stray + Len(buf) ELSE stray
    /\ UNCHANGED <<request, response, read_buffer, served, observed, got,
                   broken, flushed>>

\* the buffer copied, not taken
Taken_copied == write_buffer

\* line 204: what std::mem::take leaves behind in write_buffer
Taken == <<>>

\* line 204 moved above line 203: the buffer is emptied before the
\* request is looked for
flush_takesFirst ==
    IF request = None
    THEN /\ write_buffer' = Taken
         /\ last' = Ret("flush", "NoRequest", 0, 0, <<>>)
         /\ UNCHANGED <<request, response, read_buffer, ghosts>>
    ELSE /\ request' = Some([Unwrap(request) EXCEPT !.body = write_buffer])
         /\ write_buffer' = Taken
         /\ last' = Ret("flush", "Ok", nwrites, Len(Unwrap(request).body), <<>>)
         /\ written' = <<>>
         /\ nwrites' = 0
         /\ flushed' = written
         /\ UNCHANGED <<response, read_buffer, served, observed, got, broken,
                        stray>>

\* lines 202-207; last.k counts the writes flushed and last.n the bytes of
\* the body that the flush replaced
flush ==
    IF request = None
    THEN Fails("flush", "NoRequest", "")
    ELSE /\ request' = Some([Unwrap(request) EXCEPT !.body = write_buffer])
         /\ write_buffer' = Taken
         /\ last' = Ret("flush", "Ok", nwrites, Len(Unwrap(request).body), <<>>)
         /\ written' = <<>>
         /\ nwrites' = 0
         /\ flushed' = written
         /\ UNCHANGED <<response, read_buffer, served, observed, got, broken,
                        stray>>

\* line 250 with no request pending
initiate_response_NoRequest ==
    /\ request = None
    /\ Fails("initiate_response", "NoRequest", "")

\* line 250 with as_ref for take: the request outlives the failed submit
initiate_response_Client_keepsRequest ==
    /\ request # None
    /\ request' = request
    /\ last' = Ret("initiate_response", "Client", stray, 0,
                    Unwrap(request).body)
    /\ flushed' = <<>>
    /\ stray' = 0
    /\ UNCHANGED <<response, read_buffer, write_buffer, served, observed, got,
                   broken, written, nwrites>>

\* lines 250-255: the request is taken and handed to the client, which
\* fails; last.body is the body the client was given and last.k the number
\* of bytes written with no request pending before this request began
initiate_response_Client ==
    /\ request # None
    /\ request' = None
    /\ last' = Ret("initiate_response", "Client", stray, 0,
                    Unwrap(request).body)
    /\ flushed' = <<>>
    /\ stray' = 0
    /\ UNCHANGED <<response, read_buffer, write_buffer, served, observed, got,
                   broken, written, nwrites>>

\* a flush folded into the submit: the unflushed bytes are sent as well
initiate_response_Ok_flushes(r) ==
    /\ request # None
    /\ request' = None
    /\ response' = Some(r)
    /\ last' = Ret("initiate_response", "Ok", stray, 0,
                    Unwrap(request).body \o write_buffer)
    /\ write_buffer' = <<>>
    /\ served' = Some(r)
    /\ observed' = Some(Observation')
    /\ got' = <<>>
    /\ flushed' = <<>>
    /\ stray' = 0
    /\ UNCHANGED <<read_buffer, broken, written, nwrites>>

\* line 250 with as_ref for take: the request stays in its slot
initiate_response_Ok_keepsRequest(r) ==
    /\ request # None
    /\ request' = request
    /\ response' = Some(r)
    /\ last' = Ret("initiate_response", "Ok", stray, 0, Unwrap(request).body)
    /\ served' = Some(r)
    /\ observed' = Some(Observation')
    /\ got' = <<>>
    /\ flushed' = <<>>
    /\ stray' = 0
    /\ UNCHANGED <<read_buffer, write_buffer, broken, written, nwrites>>

\* lines 250-258: the client answers with the server's response r
initiate_response_Ok(r) ==
    /\ request # None
    /\ request' = None
    /\ response' = Some(r)
    /\ last' = Ret("initiate_response", "Ok", stray, 0, Unwrap(request).body)
    /\ served' = Some(r)
    /\ observed' = Some(Observation')
    /\ got' = <<>>
    /\ flushed' = <<>>
    /\ stray' = 0
    /\ UNCHANGED <<read_buffer, write_buffer, broken, written, nwrites>>

initiate_response ==
    \/ initiate_response_NoRequest
    \/ initiate_response_Client
    \/ \E r \in ServerResponses : initiate_response_Ok(r)

\* line 124 with as_mut for take: the response outlives the failed collect
read_Hyper_keepsResponse(k) ==
    /\ read_buffer = <<>> /\ IsSome(response)
    /\ response' = response
    /\ last' = Ret("read", "Hyper", k, 0, <<>>)
    /\ broken' = TRUE
    /\ UNCHANGED <<request, read_buffer, write_buffer, served, observed, got,
                   written, nwrites, flushed, stray>>

\* lines 178-179 and 123-126: the body is to be loaded, the response is
\* taken out of its slot and collecting its body fails
read_Hyper(k) ==
    /\ read_buffer = <<>> /\ IsSome(response)
    /\ response' = None
    /\ last' = Ret("read", "Hyper", k, 0, <<>>)
    /\ broken' = TRUE
    /\ UNCHANGED <<request, read_buffer, write_buffer, served, observed, got,
                   written, nwrites, flushed, stray>>

\* one byte more than was copied is dropped
Remaining_skips(loaded, length) == Drop(loaded, Min(Len(loaded), length + 1))

\* the buffer is not advanced past the bytes copied
Remaining_stays(loaded, length) == loaded

\* line 188: the slice of the buffer kept for the next read
Remaining(loaded, length) == Drop(loaded, length)

\* load_response_body when the body arrives: the buffer it leaves
Loaded ==
    IF read_buffer = <<>> /\ IsSome(response)
    THEN Unwrap(response).body
    ELSE read_buffer

\* lines 176-191 when no error is returned
read_Ok(k) ==
    LET loaded == Loaded
        length == Min(Len(loaded), k)
    IN  /\ response' = IF read_buffer = <<>> /\ IsSome(response)
                       THEN None ELSE response
        /\ IF loaded = <<>>
           THEN /\ read_buffer' = loaded
                /\ last' = Ret("read", "Ok", k, 0, <<>>)
                /\ got' = got
           ELSE /\ read_buffer' = Remaining(loaded, length)
                /\ last' = Ret("read", "Ok", k, length, <<>>)
                /\ got' = got \o Take(loaded, length)
        /\ UNCHANGED <<request, write_buffer, served, observed, broken,
                       written, nwrites, flushed, stray>>

read(k) == read_Hyper(k) \/ read_Ok(k)

\* lines 149-153, called: last.n is the code returned
status_call ==
    /\ last' = Ret("status", "Ok", 0, status, <<>>)
    /\ UNCHANGED <<conn, ghosts>>

\* lines 156-160, called: last.body is the Option returned
status_message_call ==
    /\ last' = Ret("status_message", "Ok", 0, 0, status_message)
    /\ UNCHANGED <<conn, ghosts>>

\* lines 165-170, called: last.body is the Option returned
header_call(name) ==
    /\ last' = Ret("header", "Ok", 0, 0, header(name))
    /\ UNCHANGED <<conn, ghosts>>

Next ==
    \/ \E call \in Calls : initiate_request(call[1], call[2], call[3])
    \/ \E buf \in SeqsUpTo(Byte, MaxWriteBuf) : write(buf)
    \/ flush
    \/ initiate_response
    \/ \E k \in ReadSizes : read(k)
    \/ status_call
    \/ status_message_call
    \/ \E name \in QueryNames : header_call(name)

Spec == Init /\ [][Next]_vars

(* ------------------------------- claims -------------------------------- *)

\* a submit has succeeded and no initiate_request has succeeded since
AfterSubmit == IsSome(served)

\* C1: from a successful initiate_response until the next successful
\* initiate_request, whatever reads are made, is_response_initiated() is
\* true and status(), status_message() and header(name) give what they
\* gave right after the submit.  (Stated for the reads that return no
\* error: the body of the response is delivered.)
C1_ResponseStaysPresent ==
    (AfterSubmit /\ ~broken) =>
        /\ is_response_initiated
        /\ Observation = Unwrap(observed)

\* C2: after initiate_request and a successful initiate_response that the
\* server answered with status s and body B, status() is s, and once a
\* read into a non-empty buffer returns 0 the reads since the submit have
\* returned exactly B (the body having been delivered).
C2_GetCycle ==
    (AfterSubmit /\ ~broken) =>
        /\ (last.op = "initiate_response" /\ last.res = "Ok"
                => status = Unwrap(served).status)
        /\ (last.op = "read" /\ last.res = "Ok" /\ last.k > 0 /\ last.n = 0
                => got = Unwrap(served).body)

C2_Witness ==
    /\ AfterSubmit /\ ~broken
    /\ last.op = "read" /\ last.res = "Ok" /\ last.k > 0 /\ last.n = 0
    /\ Unwrap(served).status = 200
    /\ Unwrap(served).body = <<1, 0>>
    /\ got = <<1, 0>>

\* C3: with a request pending, a write returns the length of its slice; a
\* successful flush makes the request body the concatenation, in write
\* order, of the slices written since the initiate_request or the previous
\* flush; and the next initiate_response hands the client the body of the
\* latest flush.
C3_WriteThenFlush ==
    [][ /\ (last'.op = "write" /\ IsSome(request)
                => last'.res = "Ok" /\ last'.n = last'.k)
        /\ (last'.op = "flush" /\ last'.res = "Ok"
                => Unwrap(request').body = written)
        /\ (last'.op = "initiate_response" /\ last'.res \in {"Ok", "Client"}
                => last'.body = flushed) ]_vars

C3_Witness ==
    /\ last.op = "flush" /\ last.res = "Ok"
    /\ last.k = 2 /\ last.n = 0
    /\ IsSome(request) /\ Unwrap(request).body = <<1, 0>>

\* C4: a successful flush replaces the request body by the bytes written
\* since the previous flush; when a non-empty body was already there, the
\* new body is not that body followed by the new bytes.
C4_FlushReplaces ==
    [][ (last'.op = "flush" /\ last'.res = "Ok") =>
            /\ Unwrap(request').body = written
            /\ (Unwrap(request).body # <<>> =>
                    Unwrap(request').body # Unwrap(request).body \o written)
      ]_vars

C4_Witness ==
    /\ last.op = "flush" /\ last.res = "Ok"
    /\ last.k >= 1 /\ last.n >= 1
    /\ IsSome(request) /\ Len(Unwrap(request).body) >= 1

\* the bytes of the served body that no read has returned yet
Undelivered ==
    IF AfterSubmit /\ ~broken
    THEN Drop(Unwrap(served).body, Len(got))
    ELSE <<>>

\* C5: each successful read into a buffer of k bytes returns
\* min(k, bytes undelivered), returns the next bytes of the body in order
\* and keeps the rest; so reads of any size k >= 1 deliver the body that one
\* read of size >= N delivers, each takes at least one byte while any is
\* left, and with none left every read returns 0.
C5_ReadChunks ==
    [][ (last'.op = "read" /\ last'.res = "Ok") =>
            /\ last'.n = Min(last'.k, Len(Undelivered))
            /\ got' = got \o Take(Undelivered, last'.n)
            /\ Undelivered' = Drop(Undelivered, last'.n)
            /\ (Undelivered = <<>> => last'.n = 0 /\ Undelivered' = <<>>)
      ]_vars

C5_Witness ==
    /\ last.op = "read" /\ last.res = "Ok"
    /\ last.k = 1 /\ last.n = 1
    /\ Len(got) = 1 /\ Len(read_buffer) = 1
    /\ AfterSubmit /\ Unwrap(served).body = got \o read_buffer

\* the methods the connector is to accept
SupportedMethods ==
    {"Get", "Head", "Post", "Put", "Delete", "Connect", "Options", "Trace",
     "Patch"}

\* C6: no call of initiate_request with one of the nine supported methods
\* is refused as unsupported, and right after a successful
\* initiate_request, from whatever state it was called,
\* is_request_initiated() is true and is_response_initiated() is false.
C6_AfterInitiateRequest ==
    last.op = "initiate_request" =>
        /\ (last.method \in SupportedMethods => last.res # "UnsupportedMethod")
        /\ (last.res = "Ok" =>
                is_request_initiated /\ ~is_response_initiated)

C6_Witness ==
    /\ last.op = "initiate_request" /\ last.res = "Ok"
    /\ last.method = "Patch"
    /\ is_request_initiated /\ ~is_response_initiated

\* C7: right after a successful initiate_response,
\* is_response_initiated() is true and is_request_initiated() is false.
C7_AfterInitiateResponse ==
    (last.op = "initiate_response" /\ last.res = "Ok") =>
        is_response_initiated /\ ~is_request_initiated

C7_Witness ==
    /\ last.op = "initiate_response" /\ last.res = "Ok"
    /\ is_response_initiated /\ ~is_request_initiated
    /\ status = 200

\* a pair of the slice breaks the wire-format rules
Violates(pair) == ~ValidHeaderName(pair[1]) \/ ~ValidHeaderValue(pair[2])
HasViolation(headers) == \E i \in 1..Len(headers) : Violates(headers[i])
FirstViolation(headers) ==
    CHOOSE i \in 1..Len(headers) :
        Violates(headers[i]) /\ \A j \in 1..(i - 1) : ~Violates(headers[j])
\* the header error that goes with the first violating pair
HeaderError(headers) ==
    IF ~ValidHeaderName(headers[FirstViolation(headers)][1])
    THEN "InvalidHeaderName"
    ELSE "InvalidHeaderValue"

\* the calls C8 is about: a supported method and a slice with a violating
\* pair
ViolatingCalls ==
    {call \in Calls : call[1] \in SupportedMethods /\ HasViolation(call[3])}

\* C8 as stated: with a supported method, a header slice holding a
\* violating pair makes initiate_request fail with its header error, and
\* no request is pending afterwards, whatever the state before the call.
C8_NoRequestPendingAfter ==
    [][ last'.op = "initiate_request" =>
            \A call \in ViolatingCalls :
                initiate_request(call[1], call[2], call[3])
                => /\ last'.res = HeaderError(call[3])
                   /\ ~is_request_initiated' ]_vars

\* C8 as amended: with a supported method, a header slice holding a
\* violating pair makes initiate_request fail with the header error of the
\* first violating pair (InvalidHeaderName when its name is invalid,
\* InvalidHeaderValue otherwise), and the call stores no request: the
\* request slot is what it was before the call, so no request is pending
\* afterwards exactly when none was pending before.
C8_RequestSlotUntouched ==
    [][ last'.op = "initiate_request" =>
            \A call \in ViolatingCalls :
                initiate_request(call[1], call[2], call[3])
                => /\ last'.res = HeaderError(call[3])
                   /\ request' = request
                   /\ is_request_initiated' = is_request_initiated ]_vars

C8_Witness ==
    /\ last.op = "initiate_request" /\ last.res = "InvalidHeaderValue"
    /\ last.method = "Post"
    /\ is_request_initiated

\* C9: a write made while no request is pending fails with NoRequest and
\* takes no bytes into the write buffer.  (Stated for a slice that holds
\* bytes to take.)
C9_WriteNeedsRequest ==
    [][ (last'.op = "write" /\ last'.k >= 1 /\ ~is_request_initiated) =>
            /\ last'.res = "NoRequest"
            /\ write_buffer' = write_buffer ]_vars

\* C10: flush and initiate_response called while no request is pending
\* fail with NoRequest and leave the request slot, the response slot, the
\* read buffer and the write buffer as they were.
C10_NoRequestChangesNothing ==
    [][ (last'.op \in {"flush", "initiate_response"} /\ ~is_request_initiated)
            => /\ last'.res = "NoRequest"
               /\ UNCHANGED conn ]_vars

C10_Witness ==
    /\ last.op = "initiate_response" /\ last.res = "NoRequest"
    /\ is_response_initiated
    /\ write_buffer # <<>>

\* C11: a read made while no response is available (no initiate_response
\* has succeeded since construction or since the latest successful
\* initiate_request) is reported as an error, not as a successful read of
\* 0 bytes.  (Stated for a buffer that has room for bytes.)
C11_ReadNeedsResponse ==
    (last.op = "read" /\ last.k >= 1 /\ ~AfterSubmit) => last.res # "Ok"

\* C12: when initiate_response fails with a Client error, no response is
\* set and no request is pending afterwards, and an initiate_response
\* called right after it fails with NoRequest.
C12_ClientErrorConsumesRequest ==
    [][ /\ (last'.op = "initiate_response" /\ last'.res = "Client"
                => ~is_response_initiated' /\ ~is_request_initiated')
        /\ ((last.op = "initiate_response" /\ last.res = "Client"
             /\ last'.op = "initiate_response")
                => last'.res = "NoRequest") ]_vars

C12_Witness ==
    /\ last.op = "initiate_response" /\ last.res = "Client"
    /\ ~is_response_initiated /\ ~is_request_initiated
    /\ last.body # <<>>

\* C13: right after a successful initiate_request the response slot, the
\* read buffer and the write buffer are empty and the new request has an
\* empty body; and until a submit succeeds no read returns a byte.
C13_NewRequestDiscardsCycle ==
    /\ (last.op = "initiate_request" /\ last.res = "Ok") =>
            /\ response = None
            /\ read_buffer = <<>>
            /\ write_buffer = <<>>
            /\ IsSome(request) /\ Unwrap(request).body = <<>>
    /\ (last.op = "read" /\ ~AfterSubmit) => last.n = 0

C13_Witness ==
    /\ last.op = "initiate_request" /\ last.res = "Ok"
    /\ last.k >= 1 /\ last.n >= 1
    /\ read_buffer = <<>> /\ write_buffer = <<>>

Lookups == {"status", "status_message", "header"}

\* C14: with no response set, status() returns 500 and status_message()
\* and header(name), for every name, return none; and a call of any of
\* the three returns without changing the request slot, the response slot
\* or either buffer.
C14_SentinelWithoutResponse ==
    [][ /\ (~is_response_initiated' =>
                /\ status' = 500
                /\ status_message' = None
                /\ \A name \in QueryNames : header(name)' = None)
        /\ (last'.op \in Lookups =>
                /\ last'.res = "Ok"
                /\ UNCHANGED conn
                /\ (~is_response_initiated =>
                        /\ (last'.op = "status" => last'.n = 500)
                        /\ (last'.op # "status" => last'.body = None)))
      ]_vars

C14_Witness ==
    /\ last.op = "status_message" /\ last.body = None
    /\ ~is_response_initiated
    /\ status = 500
    /\ AfterSubmit

\* C15: an initiate_request that fails (unsupported method, invalid header
\* name, invalid header value or malformed URI) leaves the request slot,
\* the response slot, the read buffer and the write buffer as they were.
C15_FailedInitiateChangesNothing ==
    [][ (last'.op = "initiate_request" /\ last'.res # "Ok") =>
            /\ last'.res \in {"UnsupportedMethod", "InvalidHeaderName",
                              "InvalidHeaderValue", "Http"}
            /\ UNCHANGED conn ]_vars

C15_Witness ==
    /\ last.op = "initiate_request" /\ last.res = "Http"
    /\ read_buffer # <<>> /\ write_buffer # <<>>

\* C16: in every reachable state the request slot and the response slot
\* are not both occupied.
C16_NeverBothSlots == ~(is_request_initiated /\ is_response_initiated)

C16_Witness ==
    /\ is_response_initiated /\ ~is_request_initiated
    /\ last.op = "header" /\ last.body # None
    /\ write_buffer # <<>>

\* C17: right after a successful initiate_response the read buffer is
\* empty, and the bytes that reads return after it, with those still
\* buffered, are bytes of the new response.
C17_EmptyReadBufferAfterSubmit ==
    /\ (last.op = "initiate_response" /\ last.res = "Ok") => read_buffer = <<>>
    /\ (AfterSubmit /\ ~broken /\ ~is_response_initiated) =>
            got \o read_buffer = Unwrap(served).body

C17_Witness ==
    /\ last.op = "initiate_response" /\ last.res = "Ok"
    /\ read_buffer = <<>>
    /\ Unwrap(served).body = <<0, 1>>
    /\ write_buffer # <<>>


\* C18: bytes passed to write while no request is pending are in no
\* request that is submitted later: a pending request's body is what the
\* latest flush since its initiate_request moved, and the write buffer
\* beside it holds what was written since, nothing older.
C18_StrayBytesNeverSent ==
    is_request_initiated =>
        /\ Unwrap(request).body = flushed
        /\ write_buffer = written

C18_Witness ==
    /\ last.op = "initiate_response" /\ last.res = "Ok"
    /\ last.k >= 1
    /\ Len(last.body) = 1


\* C19: initiate_response submits the body as of the latest successful
\* flush of the current request, empty if there was none; the bytes
\* written since are not sent and stay in the write buffer, and the next
\* successful initiate_request discards them.
C19_SubmitsLastFlush ==
    [][ /\ ((last'.op = "initiate_response" /\ last'.res \in {"Ok", "Client"})
              => /\ last'.body = flushed
                 /\ write_buffer' = write_buffer
                 /\ write_buffer = written)
        /\ ((last'.op = "initiate_request" /\ last'.res = "Ok")
              => write_buffer' = <<>>) ]_vars

C19_Witness ==
    /\ last.op = "initiate_response" /\ last.res = "Ok"
    /\ last.body = <<1>>
    /\ write_buffer = <<0>>

\* C20: a read during which collecting the body fails returns the Hyper
\* error; from then until the next successful initiate_request no response
\* is stored, the read buffer is empty, status is 500 and every read
\* returns Ok(0).
C20_BodyFailureDropsResponse ==
    [][ /\ ((~broken /\ broken')
              => (last'.op = "read" /\ last'.res = "Hyper"))
        /\ (broken'
              => /\ ~is_response_initiated'
                 /\ status' = 500
                 /\ read_buffer' = <<>>)
        /\ ((broken /\ last'.op = "read")
              => (last'.res = "Ok" /\ last'.n = 0)) ]_vars

C20_Witness ==
    /\ broken
    /\ last.op = "read" /\ last.res = "Ok"
    /\ last.k >= 1 /\ last.n = 0
    /\ IsSome(served) /\ Unwrap(served).body # <<>>

====
